---- MODULE Spec2Model ----
(***************************************************************************)
(* Point-colour resolution of the 3D panel: the converter factory          *)
(* getColorConverter and the closures it returns, the colormaps (turbo,    *)
(* rainbow, bluegold), the packed BGRA unpacker, the field auto-selection  *)
(* and the transparency classifier of                                      *)
(* packages/studio-base/src/panels/ThreeDeeRender/renderables/colorMode.ts *)
(*                                                                         *)
(* Numbers.  TLC has 32-bit integers and no reals, so                      *)
(*  - a colour channel is an integer count of 1/Scale (Scale = 4 * 255, so *)
(*    that byte/255 is exact);                                             *)
(*  - a scalar colorValue, minValue or maxValue is an integer count of     *)
(*    1/ValueDenominator;                                                  *)
(*  - a fraction in [0,1] is a pair <<n, d>> (n/d), <<0, 0>> being NaN;    *)
(*  - a packed colorValue is an integer hi * 2^16 + lo kept as its two     *)
(*    words [hi, lo].                                                      *)
(***************************************************************************)
EXTENDS Integers, Sequences, FiniteSets

VARIABLES tempColor1, tempColor2, tempColor, TurboLookup, turboBuilds,
          converters, outputSettings, call

vars == <<tempColor1, tempColor2, tempColor, TurboLookup, turboBuilds,
          converters, outputSettings, call>>

(***************************************************************************)
(* Bounds of the model.                                                    *)
(***************************************************************************)
\* Converters that are built and kept alive in one behaviour.
MaxConverters == 2
\* Scalar values are multiples of 1/ValueDenominator.
ValueDenominator == 2
\* Longest field list handed to autoSelectColorSettings.
MaxFields == 5

(***************************************************************************)
(* Number representation.                                                  *)
(***************************************************************************)
Scale == 4 * 255
CoefScale == 100 * 100
Word == 256 * 256
NaN == 0 - 1
UndefinedChannel == 0 - 2

Min(a, b) == IF a <= b THEN a ELSE b
Max(a, b) == IF a >= b THEN a ELSE b

\* clamp(value, min, max) of ../math
clamp(v, lo, hi) == Max(lo, Min(v, hi))

Color(r, g, b, a) == [r |-> r, g |-> g, b |-> b, a |-> a]

(***************************************************************************)
(* Colour primitives of ../color (not part of the sources at hand; after   *)
(* the specification, sections 4.1 and 7).                                 *)
(***************************************************************************)
\* A colour string is the sequence of its hexadecimal digits after '#':
\* "#ff000080" is <<15,15,0,0,0,0,8,0>>.  Six digits carry no alpha.  Any other
\* length does not parse.
HexByte(s, i) == 16 * s[i] + s[i + 1]

\* One byte as a channel value: byte / 255.
ByteToChannel(byte) == (byte * Scale) \div 255

\* stringToRgba(output, colorStr): writes the parsed sRGB colour into output
\* and returns output; an unparseable string yields the fallback, opaque white.
stringToRgba(colorStr) ==
    IF Len(colorStr) = 8
    THEN Color(ByteToChannel(HexByte(colorStr, 1)), ByteToChannel(HexByte(colorStr, 3)),
               ByteToChannel(HexByte(colorStr, 5)), ByteToChannel(HexByte(colorStr, 7)))
    ELSE IF Len(colorStr) = 6
    THEN Color(ByteToChannel(HexByte(colorStr, 1)), ByteToChannel(HexByte(colorStr, 3)),
               ByteToChannel(HexByte(colorStr, 5)), Scale)
    ELSE Color(Scale, Scale, Scale, Scale)

\* The product of two fixed-point numbers.
Times(a, b) == (a * b) \div Scale

\* z^5 in fixed point.
Pow5(z) == Times(Times(Times(Times(z, z), z), z), z)

\* The largest z in lo..hi with Pow5(z) <= v (bisection; Pow5 is monotone).
RECURSIVE Root5Between(_, _, _)
Root5Between(v, lo, hi) ==
    IF lo >= hi THEN lo
    ELSE LET mid == (lo + hi + 1) \div 2
         IN IF Pow5(mid) <= v THEN Root5Between(v, mid, hi)
                              ELSE Root5Between(v, lo, mid - 1)

\* y^2.4 = y^2 * (y^2)^(1/5) in fixed point, for y in 0..Scale.
Pow24(y) ==
    LET y2 == (y * y) \div Scale
    IN (y2 * Root5Between(y2, 0, Scale)) \div Scale

\* c <= 0.04045 ? c / 12.92 : ((c + 0.055) / 1.055) ^ 2.4
TransferFunction(c) ==
    IF c * 100000 <= 4045 * Scale
    THEN (c * 100) \div 1292
    ELSE Pow24((c * 1000 + 55 * Scale) \div 1055)

\* The transfer function on every channel value, computed once.
TransferTable == [c \in 0..Scale |-> TransferFunction(c)]

\* SRGBToLinear(c)
SRGBToLinear(c) == IF c \in 0..Scale THEN TransferTable[c] ELSE NaN

\* rgbaToLinear(output, color): the transfer function on r, g, b; alpha as it is.
rgbaToLinear(color) ==
    Color(SRGBToLinear(color.r), SRGBToLinear(color.g), SRGBToLinear(color.b), color.a)

\* One channel of rgbaGradient: a + (b - a) * frac; a NaN fraction gives NaN.
Lerp(a, b, frac) ==
    IF frac[2] = 0 THEN NaN ELSE a + ((b - a) * frac[1]) \div frac[2]

\* rgbaGradient(output, colorA, colorB, frac): every channel, alpha included.
rgbaGradient(colorA, colorB, frac) ==
    Color(Lerp(colorA.r, colorB.r, frac), Lerp(colorA.g, colorB.g, frac),
          Lerp(colorA.b, colorB.b, frac), Lerp(colorA.a, colorB.a, frac))

(***************************************************************************)
(* getColorBgra: 0xaarrggbb.                                               *)
(***************************************************************************)
\* word & mask for the byte masks 0x0000, 0x00ff, 0xff00 and 0xffff of a word.
And16(x, m) ==
    CASE m = 0     -> 0
      [] m = 255   -> x % 256
      [] m = 65280 -> (x \div 256) * 256
      [] OTHER     -> x

\* colorValue >>> 0: ToUint32 of an integer hi * 2^16 + lo, lo in 0..2^16-1.
ToUint32(colorValue) == [hi |-> colorValue.hi % Word, lo |-> colorValue.lo]

\* num & mask, mask given by its two words.
And32(num, maskHi, maskLo) ==
    [hi |-> And16(num.hi, maskHi), lo |-> And16(num.lo, maskLo)]

\* num >>> shift for shift in {0, 8, 16, 24}, as a plain integer (the masked
\* operands of getColorBgra keep it below 2^31).
ShiftRight(num, shift) ==
    CASE shift = 24 -> num.hi \div 256
      [] shift = 16 -> num.hi
      [] shift = 8  -> num.hi * 256 + num.lo \div 256
      [] OTHER      -> num.hi * Word + num.lo

MutGetColorBgraArgb(out, colorValue) ==
    LET num == ToUint32(colorValue)
    IN Color(ByteToChannel(ShiftRight(And32(num, 65280, 0), 24)),
             ByteToChannel(ShiftRight(And32(num, 255, 0), 16)),
             ByteToChannel(ShiftRight(And32(num, 0, 65280), 8)),
             ByteToChannel(ShiftRight(And32(num, 0, 255), 0)))

getColorBgra(out, colorValue) ==
    LET num == ToUint32(colorValue)
    IN Color(ByteToChannel(ShiftRight(And32(num, 255, 0), 16)),
             ByteToChannel(ShiftRight(And32(num, 0, 65280), 8)),
             ByteToChannel(ShiftRight(And32(num, 0, 255), 0)),
             ByteToChannel(ShiftRight(And32(num, 65280, 0), 24)))

(***************************************************************************)
(* bluegoldLookup.                                                         *)
(***************************************************************************)
blueGoldColormapData == <<
    <<0,126,174>>, <<4,129,177>>, <<8,132,180>>, <<12,135,184>>, <<16,138,187>>, <<20,141,190>>,
    <<24,144,194>>, <<28,147,197>>, <<32,150,200>>, <<36,153,204>>, <<40,156,207>>, <<44,159,210>>,
    <<49,162,214>>, <<53,165,217>>, <<57,168,221>>, <<61,171,224>>, <<65,174,227>>, <<69,177,231>>,
    <<74,180,234>>, <<85,183,235>>, <<95,187,236>>, <<106,190,237>>, <<116,194,238>>, <<127,197,240>>,
    <<138,200,241>>, <<148,204,242>>, <<157,206,234>>, <<165,207,217>>, <<173,207,200>>, <<181,208,183>>,
    <<189,209,166>>, <<197,210,149>>, <<204,211,132>>, <<212,211,115>>, <<220,212,98>>, <<228,213,81>>,
    <<236,214,64>>, <<244,215,47>>, <<252,215,30>>, <<254,215,30>>, <<254,215,36>>, <<254,215,43>>,
    <<254,215,49>>, <<254,215,55>>, <<254,215,62>>, <<254,214,68>>, <<254,214,74>>, <<254,214,80>>,
    <<254,214,87>>, <<254,214,93>>, <<254,214,99>>, <<255,214,106>>, <<255,213,105>>, <<255,213,105>>,
    <<255,213,104>>, <<255,213,104>>, <<255,212,103>>, <<255,212,103>>, <<255,212,102>>, <<255,212,102>>,
    <<255,211,101>>, <<255,211,101>>, <<255,211,100>>, <<255,211,100>>, <<255,210,99>>, <<255,210,99>>,
    <<255,210,98>>, <<255,210,98>>, <<255,210,98>>, <<255,209,97>>, <<255,209,97>>, <<255,209,96>>,
    <<255,209,96>>, <<255,208,95>>, <<255,208,95>>, <<255,208,94>>, <<255,208,94>>, <<254,206,92>>,
    <<254,204,89>>, <<254,202,86>>, <<253,200,84>>, <<253,198,81>>, <<252,196,78>>, <<252,194,75>>,
    <<252,192,72>>, <<251,190,70>>, <<251,188,67>>, <<250,186,64>>, <<250,184,61>>, <<250,182,58>>,
    <<249,180,56>>, <<249,178,53>>, <<248,176,50>>, <<248,174,47>>, <<248,172,44>>, <<247,170,42>>,
    <<247,168,39>>, <<246,166,36>>, <<246,164,33>>, <<246,162,30>>, <<245,160,28>>, <<245,158,25>>,
    <<244,156,22>>, <<244,154,19>>, <<244,152,16>>, <<243,150,14>>, <<243,148,11>>, <<243,146,8>>,
    <<242,144,5>>, <<242,142,2>>, <<241,140,1>>, <<241,140,1>>, <<241,140,1>>, <<241,139,1>>,
    <<241,139,1>>, <<241,138,1>>, <<241,138,1>>, <<241,138,1>>, <<241,137,1>>, <<240,137,1>>,
    <<240,136,1>>, <<240,136,1>>, <<240,136,1>>, <<240,135,1>>, <<240,135,1>>, <<240,134,1>>,
    <<240,134,1>>, <<240,134,1>>, <<239,133,1>>, <<239,132,1>>, <<239,131,1>>, <<238,130,1>>,
    <<238,128,1>>, <<238,127,1>>, <<237,126,1>>, <<237,125,1>>, <<237,124,1>>, <<236,123,1>>,
    <<236,122,1>>, <<236,121,1>>, <<235,119,1>>, <<235,118,1>>, <<235,117,1>>, <<234,116,1>>,
    <<234,115,1>>, <<234,114,1>>, <<233,113,1>>, <<233,113,1>>, <<232,113,1>>, <<232,112,1>>,
    <<232,112,1>>, <<231,112,1>>, <<231,112,1>>, <<230,111,1>>, <<230,111,1>>, <<230,111,1>>,
    <<229,111,1>>, <<229,110,1>>, <<229,110,1>>, <<228,110,1>>, <<228,109,1>>, <<227,109,1>>,
    <<227,109,1>>, <<227,109,1>>, <<226,108,1>>, <<225,106,1>>, <<225,105,1>>, <<224,104,1>>,
    <<224,103,1>>, <<223,102,1>>, <<222,101,1>>, <<222,99,1>>, <<221,98,1>>, <<220,97,1>>,
    <<220,96,1>>, <<219,95,1>>, <<219,93,1>>, <<218,92,1>>, <<217,91,1>>, <<217,90,1>>,
    <<216,89,1>>, <<216,88,1>>, <<215,87,1>>, <<214,87,1>>, <<213,87,1>>, <<213,86,1>>,
    <<212,86,1>>, <<211,86,1>>, <<210,85,1>>, <<210,85,1>>, <<209,85,1>>, <<208,85,1>>,
    <<207,84,1>>, <<207,84,1>>, <<206,84,1>>, <<205,83,1>>, <<205,83,1>>, <<204,83,1>>,
    <<203,83,1>>, <<202,82,1>>, <<202,82,1>>, <<201,82,1>>, <<200,81,0>>, <<199,81,0>>,
    <<197,80,0>>, <<196,80,0>>, <<195,79,0>>, <<194,78,0>>, <<192,78,0>>, <<191,77,0>>,
    <<190,77,0>>, <<189,76,0>>, <<187,76,0>>, <<186,75,0>>, <<185,74,0>>, <<184,74,0>>,
    <<183,73,0>>, <<181,73,0>>, <<180,72,0>>, <<179,72,0>>, <<179,72,0>>, <<178,71,0>>,
    <<179,72,0>>, <<179,72,0>>, <<179,72,0>>, <<179,72,0>>, <<179,72,0>>, <<179,72,0>>,
    <<179,72,0>>, <<179,72,0>>, <<179,72,0>>, <<179,72,0>>, <<179,72,0>>, <<179,72,0>>,
    <<179,72,0>>, <<179,72,0>>, <<179,72,0>>, <<179,72,0>>, <<182,70,0>>, <<186,67,0>>,
    <<190,65,0>>, <<194,62,0>>, <<198,60,0>>, <<202,58,0>>, <<206,55,0>>, <<210,53,0>>,
    <<214,51,0>>, <<218,48,0>>, <<222,46,0>>, <<226,44,0>>, <<230,41,0>>, <<234,39,0>>,
    <<238,37,0>>, <<242,34,0>>, <<246,32,0>>, <<250,30,0>>
>>

\* blueGoldColormapData[pct] of a JavaScript array: defined exactly when pct
\* is an integer index of the array.
BlueGoldDefined(pct) ==
    /\ pct % ValueDenominator = 0
    /\ pct \div ValueDenominator >= 0
    /\ pct \div ValueDenominator < Len(blueGoldColormapData)

MutBluegoldLookupClamped(out, pct) ==
    LET i == clamp(pct \div ValueDenominator, 0, Len(blueGoldColormapData) - 1)
        e == blueGoldColormapData[i + 1]
    IN Color(ByteToChannel(e[1]), ByteToChannel(e[2]), ByteToChannel(e[3]), Scale)

bluegoldLookup(out, pct) ==
    IF BlueGoldDefined(pct)
    THEN LET e == blueGoldColormapData[pct \div ValueDenominator + 1]
         IN Color(ByteToChannel(e[1]), ByteToChannel(e[2]), ByteToChannel(e[3]), Scale)
    ELSE out

(***************************************************************************)
(* rainbowLinear.                                                          *)
(***************************************************************************)
rainbowLinear(out, pct) ==
    IF pct[2] = 0
    THEN Color(Scale, NaN, 0, Scale)     \* h is NaN: no comparison holds
    ELSE
    LET hNum == 5 * (pct[2] - pct[1]) + pct[2]     \* h = (1 - pct) * 5 + 1, over pct[2]
        i    == hNum \div pct[2]
        f0   == ((hNum % pct[2]) * Scale) \div pct[2]
        f    == IF i % 2 < 1 THEN Scale - f0 ELSE f0
        n    == SRGBToLinear(Scale - f)
    IN IF i <= 1 THEN Color(n, 0, Scale, Scale)
       ELSE IF i = 2 THEN Color(0, n, Scale, Scale)
       ELSE IF i = 3 THEN Color(0, Scale, n, Scale)
       ELSE IF i = 4 THEN Color(n, Scale, 0, Scale)
       ELSE Color(Scale, n, 0, Scale)

(***************************************************************************)
(* turboLinear and its lookup table.                                       *)
(***************************************************************************)
\* Polynomial coefficients, in units of 1/CoefScale.
kRedVec4 == <<1357, 46154, 0 - 426603, 1321311>>
kGreenVec4 == <<914, 21942, 48430, 0 - 141850>>
kBlueVec4 == <<1067, 126419, 0 - 605820, 1103628>>
kRedVec2 == <<0 - 1529424, 592864>>
kGreenVec2 == <<42773, 28296>>
kBlueVec2 == <<0 - 899031, 273482>>

\* One term of a dot product: coefficient * component.
Term(k, v) == (k * v) \div CoefScale

Dot4(v, k) == Term(k[1], v[1]) + Term(k[2], v[2]) + Term(k[3], v[3]) + Term(k[4], v[4])
Dot2(v, k) == Term(k[1], v[1]) + Term(k[2], v[2])

turboLinear(out, pct) ==
    LET x  == ((clamp((pct[1] * Scale) \div pct[2], 0, Scale) * 99) \div 100) + Scale \div 100
        v4 == <<Scale, x, Times(x, x), Times(Times(x, x), x)>>
        v2 == <<Times(v4[3], v4[3]), Times(v4[4], v4[3])>>
    IN Color(SRGBToLinear(clamp(Dot4(v4, kRedVec4) + Dot2(v2, kRedVec2), 0, Scale)),
             SRGBToLinear(clamp(Dot4(v4, kGreenVec4) + Dot2(v2, kGreenVec2), 0, Scale)),
             SRGBToLinear(clamp(Dot4(v4, kBlueVec4) + Dot2(v2, kBlueVec2), 0, Scale)),
             Scale)

TURBO_LOOKUP_SIZE == 65535

\* A fraction pct = n/d times an integer, truncated and rounded (Math.trunc and
\* Math.round of a value that is not negative).
TruncTimes(pct, m) == (pct[1] * m) \div pct[2]
RoundTimes(pct, m) == (2 * pct[1] * m + pct[2]) \div (2 * pct[2])

(***************************************************************************)
(* The inputs of the model.                                                *)
(***************************************************************************)
\* "#ff000080", "#00ff00", "#0000ffff" and a string that does not parse.
HalfRed == <<15, 15, 0, 0, 0, 0, 8, 0>>
Green == <<0, 0, 15, 15, 0, 0>>
Blue == <<0, 0, 0, 0, 15, 15, 15, 15>>
NotAColor == <<>>

FlatColors == {HalfRed, Green, NotAColor}
Gradients == {<<Blue, Green>>, <<Green, HalfRed>>}
Alphas == {Scale, Scale \div 2}

\* <<minValue, maxValue>>: a zero-width range, a proper one, an inverted one.
Ranges == {<<0, 0>>, <<0, 4 * ValueDenominator>>, <<ValueDenominator, 0>>}

\* colorValue: -1, 0, 1/ValueDenominator, 1, 3, 255, 256.
Values == {0 - ValueDenominator, 0, 1, ValueDenominator, 3 * ValueDenominator,
           255 * ValueDenominator, 256 * ValueDenominator}

\* a * 2^24 + r * 2^16 + g * 2^8 + b
Pack(a, r, g, b) == [hi |-> a * 256 + r, lo |-> g * 256 + b]

\* Packed colour values of the converter specification, -1 among them.
PackedValues == {Pack(128, 255, 0, 1), Pack(255, 1, 2, 3), [hi |-> 0 - 1, lo |-> Word - 1]}

\* What the caller's output colour holds before a converter is invoked.
PriorOutputs == {Color(0, 0, 0, 0), Color(Scale \div 4, Scale \div 2, Scale, Scale)}

Settings(colorMode, flatColor, gradient, colorMap, explicitAlpha) ==
    [colorMode |-> colorMode, flatColor |-> flatColor, gradient |-> gradient,
     colorMap |-> colorMap, explicitAlpha |-> explicitAlpha]

ColorMaps == {"turbo", "rainbow", "bluegold"}

\* The settings the model builds converters from: per mode, the fields the
\* mode reads vary and the others are fixed.  "viridis" is no colour map.
FlatSettings == {Settings("flat", c, <<Blue, Green>>, "turbo", Scale) : c \in FlatColors}
GradientSettings == {Settings("gradient", Green, g, "turbo", Scale) : g \in Gradients}
ColormapSettings ==
    {Settings("colormap", Green, <<Blue, Green>>, "turbo", Scale),
     Settings("colormap", Green, <<Blue, Green>>, "rainbow", Scale \div 2)}
    \cup {Settings("colormap", Green, <<Blue, Green>>, "bluegold", a) : a \in Alphas}
PackedSettings ==
    {Settings("rgb", Green, <<Blue, Green>>, "turbo", a) : a \in Alphas}
    \cup {Settings("rgba", Green, <<Blue, Green>>, "turbo", Scale \div 2)}
RejectedSettings ==
    {Settings("colormap", Green, <<Blue, Green>>, "viridis", Scale),
     Settings("rgba-fields", Green, <<Blue, Green>>, "turbo", Scale)}

(***************************************************************************)
(* getColorConverter.                                                      *)
(***************************************************************************)
\* Number.EPSILON is below one unit of 1/ValueDenominator: a number of the model
\* is k units plus eps times Number.EPSILON.
EPSILON == [k |-> 0, eps |-> 1]

MutValueDeltaNoEpsilon(minValue, maxValue) == [k |-> maxValue - minValue, eps |-> 0]

\* Math.max(maxValue - minValue, Number.EPSILON)
valueDelta(minValue, maxValue) ==
    IF maxValue - minValue >= 1 THEN [k |-> maxValue - minValue, eps |-> 0] ELSE EPSILON

\* Math.max(0, Math.min((colorValue - minValue) / valueDelta, 1)), as JavaScript
\* computes it: a quotient by Number.EPSILON of a number of the model is 0 or
\* beyond 1 in size, x / 0 is an infinity, 0 / 0 is NaN, and NaN stays NaN.
frac(colorValue, minValue, delta) ==
    LET n == colorValue - minValue
    IN IF delta.eps > 0 THEN (IF n > 0 THEN <<1, 1>> ELSE <<0, 1>>)
       ELSE IF delta.k > 0 THEN <<clamp(n, 0, delta.k), delta.k>>
       ELSE IF delta.k = 0
            THEN (IF n = 0 THEN <<0, 0>> ELSE IF n > 0 THEN <<1, 1>> ELSE <<0, 1>>)
       ELSE <<clamp(0 - n, 0, 0 - delta.k), 0 - delta.k>>

\* A converter: the closure getColorConverter returns, with what it captured.
\* flatColor, minColor and maxColor are references to the colour objects
\* stringToRgba returned; settings is the argument (no operation of the module
\* writes a field of it that a closure reads), minValue and maxValue are the
\* arguments where the closure's mode uses the range and 0 where it does not.
Closure(kind, settings, minValue, maxValue, delta, flatColor, minColor, maxColor) ==
    [kind |-> kind, settings |-> settings, minValue |-> minValue, maxValue |-> maxValue,
     valueDelta |-> delta, flatColor |-> flatColor, minColor |-> minColor,
     maxColor |-> maxColor]

NoClosure == Closure("none", Settings("flat", <<>>, <<>>, "turbo", 0), 0, 0, EPSILON,
                     "none", "none", "none")

Built(closure, t1, t2) ==
    [result |-> "converter", closure |-> closure, tempColor1 |-> t1, tempColor2 |-> t2]

\* getColorConverter(settings, minValue, maxValue) with the module's tempColor1
\* and tempColor2 as they are at the call: what it returns (a converter,
\* undefined for a colorMode no case of the switch matches, or a thrown Error)
\* and what it leaves in tempColor1 and tempColor2.
getColorConverter(settings, minValue, maxValue, t1, t2) ==
    CASE settings.colorMode = "flat" ->
           Built(Closure("flat", settings, 0, 0, EPSILON, "tempColor1", "none", "none"),
                 rgbaToLinear(stringToRgba(settings.flatColor)), t2)
      [] settings.colorMode = "gradient" ->
           Built(Closure("gradient", settings, minValue, maxValue,
                         valueDelta(minValue, maxValue), "none", "tempColor1", "tempColor2"),
                 rgbaToLinear(stringToRgba(settings.gradient[1])),
                 rgbaToLinear(stringToRgba(settings.gradient[2])))
      [] settings.colorMode = "colormap" ->
           IF settings.colorMap \in ColorMaps
           THEN Built(Closure(settings.colorMap, settings, minValue, maxValue,
                              valueDelta(minValue, maxValue), "none", "none", "none"),
                      t1, t2)
           ELSE [result |-> "threw", closure |-> NoClosure,
                 tempColor1 |-> t1, tempColor2 |-> t2]
      [] settings.colorMode = "rgb" ->
           Built(Closure("rgb", settings, 0, 0, EPSILON, "none", "none", "none"), t1, t2)
      [] settings.colorMode = "rgba" ->
           Built(Closure("rgba", settings, 0, 0, EPSILON, "none", "none", "none"), t1, t2)
      [] OTHER ->
           [result |-> "undefined", closure |-> NoClosure,
            tempColor1 |-> t1, tempColor2 |-> t2]

(***************************************************************************)
(* TurboLookup and turboLinearCached.                                      *)
(*                                                                         *)
(* The table has 3 * TURBO_LOOKUP_SIZE slots.  The model keeps the slots   *)
(* of the entries that its fractions can address, by truncation or by      *)
(* rounding, and the first and last entry; every other slot holds what the *)
(* construction loop stored in it.                                         *)
(***************************************************************************)
Fractions ==
    {frac(v, range[1], valueDelta(range[1], range[2])) : v \in Values, range \in Ranges}

KeptEntries ==
    {0, TURBO_LOOKUP_SIZE - 1}
    \cup {TruncTimes(pct, TURBO_LOOKUP_SIZE - 1) : pct \in {q \in Fractions : q[2] # 0}}
    \cup {RoundTimes(pct, TURBO_LOOKUP_SIZE - 1) : pct \in {q \in Fractions : q[2] # 0}}

KeptSlots == {3 * i + c : i \in KeptEntries, c \in 0..2}

\* What the construction loop stores in a slot: a channel of
\* turboLinear(tempColor, i / (TURBO_LOOKUP_SIZE - 1)) for i = slot div 3.
SlotValue(slot) ==
    LET tempColorOfLoop == turboLinear(Color(0, 0, 0, 0), <<slot \div 3, TURBO_LOOKUP_SIZE - 1>>)
    IN CASE slot % 3 = 0 -> tempColorOfLoop.r
         [] slot % 3 = 1 -> tempColorOfLoop.g
         [] OTHER        -> tempColorOfLoop.b

\* TurboLookup before the first use: undefined.
NoTurboLookup == [defined |-> FALSE, slots |-> <<>>]

\* The table after its construction loop.
NewTurboLookup == [defined |-> TRUE, slots |-> [slot \in KeptSlots |-> SlotValue(slot)]]

\* TurboLookup[slot]: undefined beyond the array.
LookupAt(lookup, slot) ==
    IF slot \in DOMAIN lookup.slots THEN lookup.slots[slot]
    ELSE IF slot \in 0..(3 * TURBO_LOOKUP_SIZE - 1) THEN SlotValue(slot)
    ELSE UndefinedChannel

MutTurboOffsetRounded(pct) == RoundTimes(pct, TURBO_LOOKUP_SIZE - 1) * 3

\* Math.trunc(pct * (TURBO_LOOKUP_SIZE - 1)) * 3; NaN is kept as NaN.
turboOffset(pct) ==
    IF pct[2] = 0 THEN NaN ELSE TruncTimes(pct, TURBO_LOOKUP_SIZE - 1) * 3

MutTurboNeedsBuildAlways(lookup) == TRUE

\* !TurboLookup
turboNeedsBuild(lookup) == ~lookup.defined

\* turboLinearCached(output, pct) with TurboLookup as it is at the call: the
\* table it leaves, whether it constructed it, the offset it read at and the
\* colour it wrote.
turboLinearCached(lookup, out, pct) ==
    LET build  == turboNeedsBuild(lookup)
        table  == IF build THEN NewTurboLookup ELSE lookup
        offset == turboOffset(pct)
    IN [TurboLookup |-> table, built |-> build, offset |-> offset,
        output |-> Color(LookupAt(table, offset), LookupAt(table, offset + 1),
                         LookupAt(table, offset + 2), Scale)]

(***************************************************************************)
(* Invoking a converter.                                                   *)
(***************************************************************************)
Deref(ref, t1, t2) == IF ref = "tempColor1" THEN t1 ELSE t2

WithAlpha(color, alpha) == [color EXCEPT !.a = alpha]

NoFrac == <<0, 1>>
NoOffset == 0 - 3

Invoked(out, lookup, built, pct, offset) ==
    [output |-> out, TurboLookup |-> lookup, built |-> built, frac |-> pct, offset |-> offset]

\* converter(output, colorValue) for a closure getColorConverter returned, with
\* tempColor1, tempColor2 and TurboLookup as they are at the call.
Invoke(closure, out, colorValue, t1, t2, lookup) ==
    CASE closure.kind = "flat" ->
           Invoked(Deref(closure.flatColor, t1, t2), lookup, FALSE, NoFrac, NoOffset)
      [] closure.kind = "gradient" ->
           LET pct == frac(colorValue, closure.minValue, closure.valueDelta)
           IN Invoked(rgbaGradient(Deref(closure.minColor, t1, t2),
                                   Deref(closure.maxColor, t1, t2), pct),
                      lookup, FALSE, pct, NoOffset)
      [] closure.kind = "turbo" ->
           LET pct == frac(colorValue, closure.minValue, closure.valueDelta)
               res == turboLinearCached(lookup, out, pct)
           IN Invoked(WithAlpha(res.output, closure.settings.explicitAlpha),
                      res.TurboLookup, res.built, pct, res.offset)
      [] closure.kind = "rainbow" ->
           LET pct == frac(colorValue, closure.minValue, closure.valueDelta)
           IN Invoked(WithAlpha(rainbowLinear(out, pct), closure.settings.explicitAlpha),
                      lookup, FALSE, pct, NoOffset)
      [] closure.kind = "bluegold" ->
           Invoked(WithAlpha(bluegoldLookup(out, colorValue), closure.settings.explicitAlpha),
                   lookup, FALSE, NoFrac, NoOffset)
      [] closure.kind = "rgb" ->
           Invoked(WithAlpha(getColorBgra(out, colorValue), closure.settings.explicitAlpha),
                   lookup, FALSE, NoFrac, NoOffset)
      [] OTHER ->
           Invoked(getColorBgra(out, colorValue), lookup, FALSE, NoFrac, NoOffset)

(***************************************************************************)
(* colorHasTransparency.                                                   *)
(***************************************************************************)
Answer(result, t) == [result |-> result, tempColor |-> t]

\* colorHasTransparency(settings) with the module's tempColor as it is at the
\* call: the answer, and what it leaves in tempColor.
colorHasTransparency(settings, t) ==
    CASE settings.colorMode = "flat" ->
           LET c == stringToRgba(settings.flatColor)
           IN Answer(c.a < Scale, c)
      [] settings.colorMode = "gradient" ->
           LET c0 == stringToRgba(settings.gradient[1])
               c1 == stringToRgba(settings.gradient[2])
           IN IF c0.a < Scale THEN Answer(TRUE, c0) ELSE Answer(c1.a < Scale, c1)
      [] settings.colorMode \in {"colormap", "rgb"} ->
           Answer(settings.explicitAlpha < Scale, t)
      [] OTHER -> Answer(TRUE, t)

(***************************************************************************)
(* autoSelectColorSettings.                                                *)
(*                                                                         *)
(* A field name is the sequence of its characters, "" the empty sequence.  *)
(* A value that may be undefined is <<>> (undefined) or <<value>>.         *)
(***************************************************************************)
Name_rgb == <<"r", "g", "b">>
Name_RGBA == <<"R", "G", "B", "A">>
Name_rgba == <<"r", "g", "b", "a">>
Name_intensity == <<"i", "n", "t", "e", "n", "s", "i", "t", "y">>
Name_I == <<"I">>
Name_i == <<"i">>
Name_z == <<"z">>
Name_x == <<"x">>
Name_red == <<"r", "e", "d">>
Name_green == <<"g", "r", "e", "e", "n">>
Name_blue == <<"b", "l", "u", "e">>
Name_alpha == <<"a", "l", "p", "h", "a">>
Name_empty == <<>>

FieldNames == {Name_rgb, Name_RGBA, Name_intensity, Name_I, Name_z, Name_x,
               Name_red, Name_green, Name_blue, Name_alpha, Name_empty}

\* String.prototype.toLowerCase on the letters of the field names.
LowerChar(c) ==
    CASE c = "R" -> "r" [] c = "G" -> "g" [] c = "B" -> "b" [] c = "A" -> "a"
      [] c = "I" -> "i" [] c = "Z" -> "z" [] OTHER -> c

toLowerCase(name) == [k \in 1..Len(name) |-> LowerChar(name[k])]

RGBA_PACKED_FIELDS == {Name_rgb, Name_rgba}
INTENSITY_FIELDS == {Name_intensity, Name_i}

Some(v) == <<v>>
None == <<>>

\* The element of fields at the least of the indices hits, undefined if
\* there is none: what a loop over fields returns at its first hit.
FirstField(fields, hits) ==
    IF hits = {} THEN None
    ELSE Some(fields[CHOOSE k \in hits : \A j \in hits : k <= j])

bestColorByField(fields, supportsPackedRgbModes) ==
    LET packed    == {k \in 1..Len(fields) : toLowerCase(fields[k]) \in RGBA_PACKED_FIELDS}
        intensity == {k \in 1..Len(fields) : toLowerCase(fields[k]) \in INTENSITY_FIELDS}
        z         == {k \in 1..Len(fields) : fields[k] = Name_z}
    IN IF supportsPackedRgbModes /\ packed # {} THEN FirstField(fields, packed)
       ELSE IF intensity # {} THEN FirstField(fields, intensity)
       ELSE IF z # {} THEN FirstField(fields, z)
       ELSE IF Len(fields) > 0 THEN Some(fields[1]) ELSE None

hasSeparateRgbaFields(fields) ==
    LET r == \E k \in 1..Len(fields) : fields[k] = Name_red
        g == \E k \in 1..Len(fields) : fields[k] = Name_green
        b == \E k \in 1..Len(fields) : fields[k] = Name_blue
        a == \E k \in 1..Len(fields) : fields[k] = Name_alpha
    IN r /\ g /\ b /\ a

\* !bestField: undefined and the empty string are falsy.
Falsy(bestField) == bestField = None \/ bestField[1] = Name_empty

\* autoSelectColorSettings(output, fields, {supportsPackedRgbModes,
\* supportsRgbaFieldsMode}): output as the call leaves it.  output is
\* [colorField, colorMode, colorMap], colorField possibly undefined, and
\* supportsRgbaFieldsMode is possibly undefined.
autoSelectColorSettings(out, fields, supportsPackedRgbModes, supportsRgbaFieldsMode) ==
    LET bestField == bestColorByField(fields, supportsPackedRgbModes)
    IN IF Falsy(bestField) THEN out
       ELSE LET lower == toLowerCase(bestField[1])
                picked == CASE lower = Name_rgb ->
                                 [out EXCEPT !.colorField = bestField, !.colorMode = "rgb"]
                            [] lower = Name_rgba ->
                                 [out EXCEPT !.colorField = bestField, !.colorMode = "rgba"]
                            [] OTHER ->
                                 [out EXCEPT !.colorField = bestField,
                                             !.colorMode = "colormap", !.colorMap = "turbo"]
            IN IF supportsRgbaFieldsMode = Some(TRUE) /\ hasSeparateRgbaFields(fields)
               THEN [picked EXCEPT !.colorMode = "rgba-fields"]
               ELSE picked

(***************************************************************************)
(* The state machine.                                                      *)
(*                                                                         *)
(* tempColor1, tempColor2, tempColor and TurboLookup are the module's      *)
(* variables; converters are the closures built so far, in order;          *)
(* outputSettings is the caller's settings object.  turboBuilds counts the *)
(* constructions of the table.  call records the last operation: its       *)
(* arguments, what it returned and, for a converter, the colour object     *)
(* output as the call left it.                                             *)
(***************************************************************************)
ZeroColor == Color(0, 0, 0, 0)

InitialSettings == [colorField |-> None, colorMode |-> "flat", colorMap |-> "rainbow"]

Init ==
    /\ tempColor1 = ZeroColor
    /\ tempColor2 = ZeroColor
    /\ tempColor = ZeroColor
    /\ TurboLookup = NoTurboLookup
    /\ turboBuilds = 0
    /\ converters = <<>>
    /\ outputSettings = InitialSettings
    /\ call = [op |-> "none"]

\* const converter = getColorConverter(settings, minValue, maxValue)
GetColorConverter(settings, minValue, maxValue) ==
    \E res \in {getColorConverter(settings, minValue, maxValue, tempColor1, tempColor2)} :
       /\ Len(converters) < MaxConverters
       /\ tempColor1' = res.tempColor1
       /\ tempColor2' = res.tempColor2
       /\ converters' = IF res.result = "converter"
                        THEN Append(converters, res.closure) ELSE converters
       /\ call' = [op |-> "build", settings |-> settings, minValue |-> minValue,
                   maxValue |-> maxValue, result |-> res.result]
       /\ UNCHANGED <<tempColor, TurboLookup, turboBuilds, outputSettings>>

\* converters[i](output, colorValue), output holding `before` at the call
InvokeConverter(i, colorValue, before) ==
    \E res \in {Invoke(converters[i], before, colorValue, tempColor1, tempColor2, TurboLookup)} :
       /\ TurboLookup' = res.TurboLookup
       /\ turboBuilds' = IF res.built THEN turboBuilds + 1 ELSE turboBuilds
       /\ call' = [op |-> "invoke", conv |-> i, value |-> colorValue, before |-> before,
                   output |-> res.output, frac |-> res.frac, offset |-> res.offset,
                   built |-> res.built]
       /\ UNCHANGED <<tempColor1, tempColor2, tempColor, converters, outputSettings>>

\* colorHasTransparency(settings)
ColorHasTransparency(settings) ==
    \E res \in {colorHasTransparency(settings, tempColor)} :
       /\ tempColor' = res.tempColor
       /\ call' = [op |-> "transparency", settings |-> settings, result |-> res.result]
       /\ UNCHANGED <<tempColor1, tempColor2, TurboLookup, turboBuilds, converters,
                      outputSettings>>

\* Flat and gradient converters, the settings the factory rejects, and the
\* transparency classifier.
Next ==
    \/ \E settings \in FlatSettings : GetColorConverter(settings, 0, 0)
    \/ \E settings \in GradientSettings, range \in Ranges :
          GetColorConverter(settings, range[1], range[2])
    \/ \E settings \in RejectedSettings : GetColorConverter(settings, 0, 0)
    \/ \E i \in 1..Len(converters), v \in Values, before \in PriorOutputs :
          InvokeConverter(i, v, before)
    \/ \E settings \in FlatSettings \cup GradientSettings \cup ColormapSettings
                       \cup PackedSettings \cup RejectedSettings :
          ColorHasTransparency(settings)

Spec == Init /\ [][Next]_vars

\* Colormap converters.
NextColormap ==
    \/ \E settings \in ColormapSettings, range \in Ranges :
          GetColorConverter(settings, range[1], range[2])
    \/ \E i \in 1..Len(converters), v \in Values, before \in PriorOutputs :
          InvokeConverter(i, v, before)

SpecColormap == Init /\ [][NextColormap]_vars

\* Packed converters, on every packing of the bytes of PackedBytes.
PackedBytes == {0, 128, 255}

NextPacked ==
    \/ \E settings \in PackedSettings : GetColorConverter(settings, 0, 0)
    \/ \E i \in 1..Len(converters), a, r, g, b \in PackedBytes :
          InvokeConverter(i, Pack(a, r, g, b), ZeroColor)
    \/ \E i \in 1..Len(converters), v \in PackedValues, before \in PriorOutputs :
          InvokeConverter(i, v, before)

SpecPacked == Init /\ [][NextPacked]_vars

\* Field auto-selection: every list of up to MaxFields distinct field names,
\* every combination of the two capabilities, and an output that is in mode
\* "flat" or in mode "rgba-fields" before the call.  The call is drawn at the
\* start and made once.
FieldLists ==
    {fields \in UNION {[1..n -> FieldNames] : n \in 0..MaxFields} :
        \A j, k \in 1..Len(fields) : fields[j] = fields[k] => j = k}

InitAuto ==
    /\ tempColor1 = ZeroColor
    /\ tempColor2 = ZeroColor
    /\ tempColor = ZeroColor
    /\ TurboLookup = NoTurboLookup
    /\ turboBuilds = 0
    /\ converters = <<>>
    /\ outputSettings \in {InitialSettings, [InitialSettings EXCEPT !.colorMode = "rgba-fields"]}
    /\ \E fields \in FieldLists, packed \in BOOLEAN, separate \in {None, Some(FALSE), Some(TRUE)} :
          call = [op |-> "pending", fields |-> fields, supportsPackedRgbModes |-> packed,
                  supportsRgbaFieldsMode |-> separate, before |-> outputSettings]

\* autoSelectColorSettings(outputSettings, fields, {supportsPackedRgbModes, supportsRgbaFieldsMode})
AutoSelectColorSettings ==
    /\ call.op = "pending"
    /\ outputSettings' = autoSelectColorSettings(outputSettings, call.fields,
                             call.supportsPackedRgbModes, call.supportsRgbaFieldsMode)
    /\ call' = [call EXCEPT !.op = "autoselect"]
    /\ UNCHANGED <<tempColor1, tempColor2, tempColor, TurboLookup, turboBuilds, converters>>

NextAuto == AutoSelectColorSettings

SpecAuto == InitAuto /\ [][NextAuto]_vars

(***************************************************************************)
(* The claims.                                                             *)
(***************************************************************************)
\* The converter the last call invoked.
Invoked_ == converters[call.conv]

\* The linearized colour of a colour string.
Linearized(colorStr) == rgbaToLinear(stringToRgba(colorStr))

\* C1: a flat or gradient converter depends only on the settings and range it
\* was built from and on the input value, whatever converters are built later:
\* a flat converter writes the linearized flatColor of its own settings, a
\* gradient converter interpolates between the linearized endpoints of its own
\* settings.
C1_ConverterKeepsItsOwnColors ==
    call.op = "invoke" =>
        /\ Invoked_.kind = "flat" =>
              call.output = Linearized(Invoked_.settings.flatColor)
        /\ Invoked_.kind = "gradient" =>
              call.output = rgbaGradient(Linearized(Invoked_.settings.gradient[1]),
                                         Linearized(Invoked_.settings.gradient[2]),
                                         frac(call.value, Invoked_.minValue,
                                              valueDelta(Invoked_.minValue, Invoked_.maxValue)))

\* C3: getColorConverter with colorMode "rgba-fields" fails at construction:
\* it throws, and never returns normally.
C3_RgbaFieldsIsRejected ==
    (call.op = "build" /\ call.settings.colorMode = "rgba-fields") => call.result = "threw"

\* C2: the turbo lookup table is constructed at most once, by the first
\* invocation of a turbo converter and not by getColorConverter, and once it
\* is constructed no step reassigns it or writes one of its slots.
C2_TurboLookupBuiltOnce ==
    /\ [](/\ turboBuilds <= 1
          /\ TurboLookup.defined <=> turboBuilds = 1
          /\ TurboLookup.defined => TurboLookup = NewTurboLookup)
    /\ [][/\ TurboLookup.defined => TurboLookup' = TurboLookup
          /\ call'.op = "build" => TurboLookup' = TurboLookup
          /\ (call'.op = "invoke" /\ converters[call'.conv].kind = "turbo")
                => (TurboLookup'.defined /\ call'.built = ~TurboLookup.defined)
          /\ turboBuilds' # turboBuilds
                => (call'.op = "invoke" /\ converters[call'.conv].kind = "turbo")]_vars

\* C2's case: two turbo converters are built, the table is there, and an
\* invocation that did not construct it has read it.
C2_Witness ==
    /\ Len(converters) = 2
    /\ converters[1].kind = "turbo" /\ converters[2].kind = "turbo"
    /\ call.op = "invoke" /\ call.conv = 2 /\ ~call.built
    /\ TurboLookup.defined /\ turboBuilds = 1

\* C4's priority order, read off the field list: the first packed-RGB(A) name
\* if such modes are supported, else the first intensity name, else "z", else
\* the first field.
C4_Expected(fields, supportsPackedRgbModes) ==
    LET IsPacked(k) == toLowerCase(fields[k]) \in {Name_rgb, Name_rgba}
        IsIntensity(k) == toLowerCase(fields[k]) \in {Name_intensity, Name_i}
        First(S) == fields[CHOOSE k \in S : \A j \in S : k <= j]
        packed == {k \in 1..Len(fields) : IsPacked(k)}
        intensity == {k \in 1..Len(fields) : IsIntensity(k)}
    IN IF supportsPackedRgbModes /\ packed # {} THEN First(packed)
       ELSE IF intensity # {} THEN First(intensity)
       ELSE IF \E k \in 1..Len(fields) : fields[k] = Name_z THEN Name_z
       ELSE fields[1]

\* C4: for a non-empty field list autoSelectColorSettings sets
\* output.colorField to the field the priority order names; for an empty list
\* it changes nothing in output.
C4_ColorFieldFollowsPriority ==
    call.op = "autoselect" =>
        IF call.fields = <<>>
        THEN outputSettings = call.before
        ELSE outputSettings.colorField
                = Some(C4_Expected(call.fields, call.supportsPackedRgbModes))

\* The four separate channel fields are all in the list.
C5_HasAllFour(fields) ==
    \A name \in {Name_red, Name_green, Name_blue, Name_alpha} :
        \E k \in 1..Len(fields) : fields[k] = name

\* C5: with supportsRgbaFieldsMode true and red, green, blue and alpha all in
\* the list, the call leaves colorMode "rgba-fields"; otherwise a call with a
\* non-empty list never leaves colorMode "rgba-fields".
C5_RgbaFieldsModeWinsLast ==
    call.op = "autoselect" =>
        IF call.supportsRgbaFieldsMode = Some(TRUE) /\ C5_HasAllFour(call.fields)
        THEN outputSettings.colorMode = "rgba-fields"
        ELSE call.fields # <<>> => outputSettings.colorMode # "rgba-fields"

\* The last call invoked a gradient converter built with minValue = 0 and
\* maxValue = 0.
C6_ZeroWidthGradientInvoked ==
    /\ call.op = "invoke"
    /\ Invoked_.kind = "gradient"
    /\ Invoked_.minValue = 0 /\ Invoked_.maxValue = 0

\* C6 as claimed: a gradient converter built with minValue = 0 and maxValue = 0
\* yields, for every input, the interpolation result at frac = 1, the
\* linearized high endpoint gradient[1].
C6_AlwaysHighEndpoint ==
    C6_ZeroWidthGradientInvoked =>
        /\ call.frac = <<1, 1>>
        /\ call.output = Linearized(Invoked_.settings.gradient[2])

\* C6 as amended: such a converter never divides by zero (its fraction is a
\* number); for an input above zero the fraction is 1 and the output is the
\* converter's high endpoint colour; for an input that is zero or negative
\* the fraction is 0 and the output is the converter's low endpoint colour.
C6_EndpointBySign ==
    C6_ZeroWidthGradientInvoked =>
        /\ call.frac[2] # 0
        /\ call.value > 0 =>
              /\ call.frac = <<1, 1>>
              /\ call.output = Deref(Invoked_.maxColor, tempColor1, tempColor2)
        /\ call.value <= 0 =>
              /\ call.frac = <<0, 1>>
              /\ call.output = Deref(Invoked_.minColor, tempColor1, tempColor2)

\* C6's case: a zero-width gradient converter, invoked with a negative input,
\* wrote its low endpoint, which is not its high endpoint.
C6_Witness ==
    /\ C6_ZeroWidthGradientInvoked
    /\ call.value < 0
    /\ call.output = Linearized(Invoked_.settings.gradient[1])
    /\ call.output # Linearized(Invoked_.settings.gradient[2])

\* C7: when colorHasTransparency answers false for the settings a converter
\* was built from, the converter never writes an alpha below 1; and
\* colorHasTransparency answers true for rgba and rgba-fields and
\* explicitAlpha < 1 for colormap and rgb.
C7_NoTransparencyMeansOpaque ==
    /\ call.op = "invoke" =>
          (~colorHasTransparency(Invoked_.settings, tempColor).result
              => call.output.a >= Scale)
    /\ call.op = "transparency" =>
          /\ call.settings.colorMode \in {"rgba", "rgba-fields"} => call.result
          /\ call.settings.colorMode \in {"colormap", "rgb"}
                => (call.result <=> call.settings.explicitAlpha < Scale)

\* colorValue is no integer index in 0..255 of the 256-entry table.
C8_NotAnIndex(colorValue) ==
    \/ colorValue % ValueDenominator # 0
    \/ colorValue < 0
    \/ colorValue >= 256 * ValueDenominator

\* C8: a bluegold converter invoked with a value that is no index of the
\* table leaves output.r, output.g and output.b as they were and sets
\* output.a to settings.explicitAlpha, whatever range it was built with.
C8_BluegoldOutOfRangeKeepsColor ==
    (call.op = "invoke" /\ Invoked_.kind = "bluegold" /\ C8_NotAnIndex(call.value)) =>
        /\ call.output.r = call.before.r
        /\ call.output.g = call.before.g
        /\ call.output.b = call.before.b
        /\ call.output.a = Invoked_.settings.explicitAlpha

\* C8's case: a bluegold converter built with a proper range was invoked with
\* 256 on an output that held a colour, with an explicitAlpha below 1.
C8_Witness ==
    /\ call.op = "invoke" /\ Invoked_.kind = "bluegold"
    /\ Invoked_.minValue = 0 /\ Invoked_.maxValue = 4 * ValueDenominator
    /\ call.value = 256 * ValueDenominator
    /\ call.before # ZeroColor
    /\ call.output = WithAlpha(call.before, Scale \div 2)

\* C9: on a * 2^24 + r * 2^16 + g * 2^8 + b the rgba converter writes a/255,
\* r/255, g/255, b/255, and the rgb converter writes the same r, g, b and
\* settings.explicitAlpha as alpha.
C9_UnpackRoundTrip ==
    \A a, r, g, b \in PackedBytes :
        (call.op = "invoke" /\ call.value = Pack(a, r, g, b)) =>
            /\ call.output.r = (r * Scale) \div 255
            /\ call.output.g = (g * Scale) \div 255
            /\ call.output.b = (b * Scale) \div 255
            /\ Invoked_.kind = "rgba" => call.output.a = (a * Scale) \div 255
            /\ Invoked_.kind = "rgb" => call.output.a = Invoked_.settings.explicitAlpha

\* C9's case: the rgb converter with explicitAlpha 1 unpacked 0x80ff0080.
C9_Witness ==
    /\ call.op = "invoke" /\ Invoked_.kind = "rgb"
    /\ call.value = Pack(128, 255, 0, 128)
    /\ call.output = Color(Scale, 0, (128 * Scale) \div 255, Scale)

\* The last call invoked a turbo converter.
C10_TurboInvoked == call.op = "invoke" /\ Invoked_.kind = "turbo"

\* C10 as claimed: the cached turbo colormap reads the entry at index
\* round(t * (N - 1)), N = 65535, an index in 0..N-1.
C10_IndexIsRounded ==
    C10_TurboInvoked =>
        /\ call.offset = 3 * RoundTimes(call.frac, TURBO_LOOKUP_SIZE - 1)
        /\ call.offset \div 3 \in 0..(TURBO_LOOKUP_SIZE - 1)

\* C10 as amended: it reads the entry at index trunc(t * (N - 1)), an index in
\* 0..N-1, and the entry holds what turboLinear gave at index / (N - 1).
C10_IndexIsTruncated ==
    C10_TurboInvoked =>
        LET index == TruncTimes(call.frac, TURBO_LOOKUP_SIZE - 1)
            entry == turboLinear(ZeroColor, <<index, TURBO_LOOKUP_SIZE - 1>>)
        IN /\ call.offset = 3 * index
           /\ index \in 0..(TURBO_LOOKUP_SIZE - 1)
           /\ call.output.r = TurboLookup.slots[3 * index] /\ call.output.r = entry.r
           /\ call.output.g = TurboLookup.slots[3 * index + 1] /\ call.output.g = entry.g
           /\ call.output.b = TurboLookup.slots[3 * index + 2] /\ call.output.b = entry.b

\* C10's case: t = 3/4, where t * (N - 1) = 49150.5 truncates to 49150 and
\* rounds to 49151.
C10_Witness ==
    /\ C10_TurboInvoked
    /\ call.frac[1] * 4 = call.frac[2] * 3
    /\ call.offset = 3 * 49150
    /\ RoundTimes(call.frac, TURBO_LOOKUP_SIZE - 1) = 49151

\* C11: when supportsPackedRgbModes is false, autoSelectColorSettings never
\* sets output.colorMode to "rgb" or "rgba", whatever the field list: a call
\* that writes to output leaves the mode "colormap" with colorMap "turbo", or
\* "rgba-fields".
C11_NoPackedModeWithoutSupport ==
    (call.op = "autoselect" /\ ~call.supportsPackedRgbModes) =>
        /\ outputSettings.colorMode \notin {"rgb", "rgba"}
        /\ outputSettings # call.before =>
              \/ outputSettings.colorMode = "colormap" /\ outputSettings.colorMap = "turbo"
              \/ outputSettings.colorMode = "rgba-fields"
====
